---- MODULE Spec2Model ----
(***************************************************************************)
(* A model of src/main.py: the polite, checkpointed crawl of a paginated   *)
(* catalogue.  The state is the output directory (one file per page), the  *)
(* robots.txt parser, the locals of run_range and of process_one_page, and *)
(* a record of what the run did on the network.  One thread of control:    *)
(* pc names the statement the process is blocked at.                       *)
(***************************************************************************)
EXTENDS Integers, Sequences, FiniteSets, TLC

(***************************************************************************)
(* Bounds of the model.                                                    *)
(***************************************************************************)
MaxPage == 3        \* page indices are 1..MaxPage
MaxRows == 2        \* rows of a listing table
MaxThreshold == 2   \* values of the consecutive-failure threshold tried
MaxRetries == 3     \* retries argument of a direct polite_get call

(***************************************************************************)
(* Program constants.                                                      *)
(***************************************************************************)
MAX_LIST_RETRIES == 3
MAX_DETAIL_RETRIES == 3
BackoffTenths == 15          \* the literal 1.5 (seconds), in tenths of a second

Pages == 1..MaxPage
None == -1                   \* Optional[int]: end_page, the detected last page
NoResp == 0                  \* polite_get returning None
RequestException == -1       \* session.get raising requests.RequestException
Statuses == {200, 304, 404, 429, 503}
Outcomes == Statuses \cup {RequestException}

LISTING_PATH == "/home/DrugSearch"
RESULT_PATH == "/home/Result"
OTHER_PATH == "/home/Other"
DetailPaths == {RESULT_PATH, OTHER_PATH}
Paths == {LISTING_PATH} \cup DetailPaths

FallbackAgent == "fallback" \* the literal of lines 42-43
RandomAgents == {"ua1", "ua2"} \* values of UserAgent().random
UserAgents == {FallbackAgent} \cup RandomAgents
RegNos == {"R1", "R2"}
NoText == ""                 \* an empty string: blank cell, missing href, empty body
Contents == {"h1"}           \* non-empty detail bodies

(***************************************************************************)
(* robots.txt                                                              *)
(***************************************************************************)
\* RobotFileParser() as constructed at line 50, before read()
FreshParser ==
  [last_checked |-> FALSE, disallow_all |-> FALSE, allow_all |-> FALSE, rules |-> {}]

\* init_robots_parser: the parser after rp.read() returned or raised.
\*  - urlopen raises (URLError, timeout) or the body does not decode: the
\*    except clause of line 56 swallows it, the parser stays as constructed;
\*  - HTTP 5xx: read() returns without setting anything;
\*  - HTTP 401/403: disallow_all; any other 4xx: allow_all;
\*  - a parsed file: last_checked is set and the rules (here: the paths the
\*    file disallows for every agent) are recorded.
init_robots_parser ==
  {FreshParser,
   [FreshParser EXCEPT !.disallow_all = TRUE],
   [FreshParser EXCEPT !.allow_all = TRUE]}
  \cup {[FreshParser EXCEPT !.last_checked = TRUE, !.rules = d] : d \in SUBSET Paths}

\* RobotFileParser.can_fetch, the call of line 67
rp_can_fetch(r, agent, path) ==
  IF r.disallow_all THEN FALSE
  ELSE IF r.allow_all THEN TRUE
  ELSE IF ~r.last_checked THEN FALSE
  ELSE path \notin r.rules

\* can_fetch, lines 60-70 (the except clause is taken only if rp.can_fetch
\* raises, which it does not for string arguments)
can_fetch(r, agent, path) == rp_can_fetch(r, agent, path)

\* get_user_agent, lines 34-43, by whether fake_useragent can be imported:
\* if it cannot, the fallback; if it can, a random identity, or the fallback
\* when UserAgent() raises
get_user_agent(installed) ==
  IF installed THEN RandomAgents \cup {FallbackAgent} ELSE {FallbackAgent}

(***************************************************************************)
(* polite_get, lines 86-110, as the set of its possible executions: the    *)
(* response returned, the number of session.get calls, the backoff sleeps  *)
(* in order and the outcome of every attempt.                              *)
(***************************************************************************)
\* variant: every status of 400 or more is retried
IsTransient_From400(o) == o = RequestException \/ o >= 400

\* lines 96 and 104
IsTransient(o) == o = RequestException \/ o = 429 \/ o >= 500

\* variant: the same sleep after every attempt
Backoff_Flat(attempt) == BackoffTenths

\* lines 97 and 105
Backoff(attempt) == BackoffTenths * attempt

\* variant: range(1, retries)
Attempts_Short(retries) == 1..(retries - 1)

\* variant: range(1, retries + 2)
Attempts_Long(retries) == 1..(retries + 1)

\* range(1, retries + 1), line 90
Attempts(retries) == 1..retries

RECURSIVE PoliteLoop(_, _, _, _)
PoliteLoop(attempt, retries, sleeps, seen) ==
  IF attempt \notin Attempts(retries)
  THEN {[resp |-> NoResp, gets |-> Len(seen), sleeps |-> sleeps, seen |-> seen]}
  ELSE UNION {
         IF IsTransient(o)
         THEN PoliteLoop(attempt + 1, retries,
                         Append(sleeps, Backoff(attempt)), Append(seen, o))
         ELSE {[resp |-> o, gets |-> Len(seen) + 1, sleeps |-> sleeps,
                seen |-> Append(seen, o)]}
         : o \in Outcomes }

polite_get(retries) == PoliteLoop(1, retries, <<>>, <<>>)

\* what a caller inside the program sees of an execution: the response, and
\* whether a request went out
Fetched(retries) ==
  {[resp |-> run.resp, gets |-> run.gets] : run \in polite_get(retries)}

(***************************************************************************)
(* The listing parser, lines 115-167.  A listing body is what the parser   *)
(* reads of it: whether the results <tbody> is there and, per <tr>, the    *)
(* number of cells, the text of the first cell and the href of the link    *)
(* in the last cell; of the pagination bar, whether <ul class=pagination>  *)
(* is there, the numeric labels of its anchors and of its first <span>.    *)
(***************************************************************************)
Rows ==
  {[cells |-> 5, reg_no |-> "R1", href |-> RESULT_PATH],
   [cells |-> 5, reg_no |-> "R2", href |-> OTHER_PATH]}
  \cup {[cells |-> 4, reg_no |-> "R1", href |-> RESULT_PATH],
        [cells |-> 5, reg_no |-> NoText, href |-> RESULT_PATH],
        [cells |-> 5, reg_no |-> "R1", href |-> NoText]}

ListingBodies ==
  {[tbody |-> FALSE, rows |-> <<>>]}
  \cup {[tbody |-> TRUE, rows |-> rs] : rs \in UNION {[1..n -> Rows] : n \in 0..MaxRows}}

RowKept(tr) == tr.cells >= 5 /\ tr.reg_no # NoText /\ tr.href # NoText

RECURSIVE CollectItems(_)
CollectItems(rows) ==
  IF rows = <<>> THEN <<>>
  ELSE IF RowKept(Head(rows))
       THEN <<[reg_no |-> Head(rows).reg_no, detail_url |-> Head(rows).href]>>
            \o CollectItems(Tail(rows))
       ELSE CollectItems(Tail(rows))

\* parse_listing_for_items, lines 115-143
parse_listing_for_items(html) ==
  IF ~html.tbody THEN <<>> ELSE CollectItems(html.rows)

PageNumbers == 0..MaxPage

Paginations ==
  {[ul |-> FALSE, anchors |-> {}, span |-> None]}
  \cup {[ul |-> TRUE, anchors |-> a, span |-> sp] :
          a \in SUBSET PageNumbers, sp \in PageNumbers \cup {None}}

SetMax(S) == CHOOSE m \in S : \A x \in S : x <= m

\* find_last_page_number, lines 145-167
find_last_page_number(html) ==
  IF ~html.ul THEN None
  ELSE LET nums == html.anchors \cup (IF html.span # None THEN {html.span} ELSE {})
       IN IF nums = {} THEN None ELSE SetMax(nums)

\* what the callers of polite_get and of the parsers can get back
ListingFetched == Fetched(MAX_LIST_RETRIES)
DetailFetched == Fetched(MAX_DETAIL_RETRIES)
ParsedListings == {parse_listing_for_items(html) : html \in ListingBodies}
DetectedLasts == {find_last_page_number(html) : html \in Paginations}

(***************************************************************************)
(* The output directory.  A file is absent, or it exists; json.dump may    *)
(* not have run to its end (complete = FALSE: empty or truncated).  The    *)
(* mapping has NoText where the dictionary has no key.                     *)
(***************************************************************************)
EmptyMap == [r \in RegNos |-> NoText]
NoFile == [exists |-> FALSE, complete |-> FALSE, mapping |-> EmptyMap]
OpenedFile == [exists |-> TRUE, complete |-> FALSE, mapping |-> EmptyMap]
WrittenFile(m) == [exists |-> TRUE, complete |-> TRUE, mapping |-> m]

\* what an earlier process can have left of page p: nothing, or a file; on
\* the even pages a file it wrote, on the odd pages a file it was terminated
\* in the writing of
LeftFile(p) ==
  IF p % 2 = 0 THEN WrittenFile([EmptyMap EXCEPT !["R1"] = "h1"]) ELSE OpenedFile

Directories == {d \in [Pages -> {NoFile} \cup {LeftFile(p) : p \in Pages}] :
                  \A p \in Pages : d[p] \in {NoFile, LeftFile(p)}}

VARIABLES
  pc,            \* the statement the process is at ("start": nothing called yet)
  entry,         \* the function the caller invoked
  terminal,      \* how the last call ended
  files,         \* OUTPUT_DIR: page index -> file
  STOP_ON_CONSECUTIVE_LIST_FAILS,  \* the tunable of line 21
  fake_useragent,                  \* whether the import of line 39 succeeds
  ua, session_ua, rp,              \* run_range: ua, session headers, rp
  start_page, end_page,            \* run_range: its parameters, as reassigned
  page,                            \* run_range: the loop variable
  consecutive_list_fails,          \* run_range: the counter
  ret,                             \* where process_one_page returns to
  page_index, resp, result_map,    \* process_one_page: its locals
  items,                           \* process_one_page: the items its loop has yet to visit
  ok,                              \* the value process_one_page returned
  pg,                              \* the execution of a direct polite_get call
  args,          \* history: the arguments of the call
  files0,        \* history: the directory when the call began
  requests,      \* history: <<caller, page>> of every session.get of the call
  skipped,       \* history: pages the run skipped because their file existed
  invoked,       \* history: page indices process_one_page was invoked with
  failed,        \* history: page indices process_one_page returned False for
  written,       \* history: page indices save_page_json was called with
  detected,      \* history: <<v>> once find_last_page_number returned v
  handled        \* history (kept by DetailTurn when asked to): per item visited,
                 \* its record id, the policy's answer, the response, the body

env == <<files, STOP_ON_CONSECUTIVE_LIST_FAILS, fake_useragent>>
rrVars == <<ua, session_ua, rp, start_page, end_page, page, consecutive_list_fails>>
popVars == <<ret, page_index, resp, items, result_map, ok>>
hist == <<args, files0, requests, skipped, invoked, failed, written, detected, handled>>
vars == <<pc, entry, terminal, pg, env, rrVars, popVars, hist>>

NoPg == [resp |-> NoResp, gets |-> 0, sleeps |-> <<>>, seen |-> <<>>, retries |-> 0]

\* variant: the checkpoint test dropped
FileExists_Never(p) == FALSE

\* variant: a file counts only if it was written to its end
FileExists_Complete(p) == p \in Pages /\ files[p].exists /\ files[p].complete

\* out_file.exists(), lines 276 and 292
FileExists(p) == p \in Pages /\ files[p].exists

\* the process before any call, fake_useragent installed or not
Start(installed) ==
  /\ fake_useragent = installed
  /\ pc = "start" /\ entry = "none" /\ terminal = "none"
  /\ files \in Directories
  /\ STOP_ON_CONSECUTIVE_LIST_FAILS \in 1..MaxThreshold
  /\ ua = "none" /\ session_ua = "none" /\ rp = FreshParser
  /\ start_page = 0 /\ end_page = None /\ page = 0
  /\ consecutive_list_fails = 0
  /\ ret = "none" /\ page_index = 0 /\ resp = NoResp /\ items = <<>>
  /\ result_map = EmptyMap /\ ok = FALSE
  /\ pg = NoPg
  /\ args = <<>> /\ files0 = files /\ requests = {} /\ skipped = {} /\ invoked = <<>>
  /\ failed = {} /\ written = <<>> /\ detected = <<>> /\ handled = <<>>

\* an environment without the fake_useragent package: one identity
Init == Start(FALSE)

\* an environment with it
InstalledInit == Start(TRUE)

(***************************************************************************)
(* Calls and returns.                                                      *)
(***************************************************************************)
FreshHistory ==
  /\ files0' = files /\ requests' = {} /\ skipped' = {} /\ invoked' = <<>>
  /\ failed' = {} /\ written' = <<>> /\ detected' = <<>> /\ handled' = <<>>

FreshPageLocals ==
  /\ resp' = NoResp /\ items' = <<>> /\ result_map' = EmptyMap

\* variant: the request goes out for the page after p
Sent_NextPage(caller, p, run) == IF run.gets > 0 THEN {<<caller, p + 1>>} ELSE {}

\* the session.get calls of one polite_get execution, as history
Sent(caller, p, run) == IF run.gets > 0 THEN {<<caller, p>>} ELSE {}

\* process_one_page(session, rp, ua, p) is entered, to return to `to`
Invoke(p, to) ==
  /\ pc' = "pop_listing"
  /\ page_index' = p
  /\ ret' = to
  /\ invoked' = Append(invoked, p)
  /\ FreshPageLocals
  /\ UNCHANGED ok

\* process_one_page returns v
Return(v) ==
  /\ ok' = v
  /\ failed' = IF v THEN failed ELSE failed \cup {page_index}
  /\ FreshPageLocals
  /\ pc' = IF ret = "caller" THEN "done" ELSE ret
  /\ terminal' = IF ret = "caller" THEN "returned" ELSE terminal
  /\ UNCHANGED <<ret, page_index>>

\* run_range returns (or its loop ends): the call is over
Finish(how) ==
  /\ pc' = "done"
  /\ terminal' = how

(***************************************************************************)
(* run_range, lines 237-305                                                *)
(***************************************************************************)
\* variant: only the listing path is checked
StartupAllowed_ListingOnly(r, u) == can_fetch(r, u, LISTING_PATH)

\* lines 247-252: the two paths checked once
StartupAllowed(r, u) == can_fetch(r, u, LISTING_PATH) /\ can_fetch(r, u, RESULT_PATH)

\* lines 243-255: identity, robots.txt, the two start-up checks, the session
CallRunRange(s, e) ==
  /\ pc = "start"
  /\ \E u \in get_user_agent(fake_useragent), r \in init_robots_parser :
       /\ entry' = "run_range"
       /\ ua' = u /\ rp' = r
       /\ start_page' = s /\ end_page' = e /\ page' = s
       /\ consecutive_list_fails' = 0
       /\ IF ~StartupAllowed(r, u)
          THEN /\ Finish("policy_denied")
               /\ session_ua' = "none"
          ELSE /\ pc' = IF e = None THEN "rr_detect" ELSE "rr_loop"
               /\ terminal' = "running"
               /\ \E su \in get_user_agent(fake_useragent) : session_ua' = su
  /\ args' = <<s, e>>
  /\ FreshHistory
  /\ FreshPageLocals
  /\ ret' = "none" /\ page_index' = 0 /\ ok' = FALSE /\ pg' = NoPg
  /\ UNCHANGED env

\* variant: only an absent response is a failure
Failed_AbsentOnly(r) == r = NoResp

\* `not resp or resp.status_code != 200`, lines 175, 207 and 262 (a Response
\* is falsy when its status is 400 or more)
Failed(r) == r = NoResp \/ r >= 400 \/ r # 200

\* variant: no fallback to the start page
Detected_Raw(last, start) == last

\* `if not last`: None and 0 alike
Detected(last, start) == IF last = None \/ last = 0 THEN start ELSE last

\* lines 258-287: the probe of page start_page, the detection of the last
\* page and the handling of the first page up to the call of process_one_page
AutoDetect ==
  /\ pc = "rr_detect"
  /\ \E run \in ListingFetched :
       /\ requests' = requests \cup Sent("detect", start_page, run)
       /\ IF Failed(run.resp)
          THEN /\ Finish("detect_failed")
               /\ UNCHANGED <<start_page, end_page, page, skipped, invoked, popVars, detected>>
          ELSE \E last \in DetectedLasts :
                 /\ detected' = <<last>>
                 /\ end_page' = Detected(last, start_page)
                 /\ IF FileExists(start_page)
                    THEN /\ skipped' = skipped \cup {start_page}
                         /\ start_page' = start_page + 1
                         /\ page' = start_page + 1
                         /\ pc' = "rr_loop"
                         /\ UNCHANGED <<invoked, popVars, terminal>>
                    ELSE /\ Invoke(start_page, "rr_first")
                         /\ UNCHANGED <<start_page, page, skipped, terminal>>
  /\ UNCHANGED <<entry, pg, env, ua, session_ua, rp, consecutive_list_fails, args, files0,
                 failed, written, handled>>

\* variant: every returned page counts as a failure
Counted_Always(v, n) == n + 1

\* the counter after process_one_page returned v
Counted(v, n) == IF v THEN 0 ELSE n + 1

\* lines 283-287: the first page returned
FirstPageDone ==
  /\ pc = "rr_first"
  /\ consecutive_list_fails' = Counted(ok, consecutive_list_fails)
  /\ start_page' = start_page + 1
  /\ page' = start_page + 1
  /\ pc' = "rr_loop"
  /\ UNCHANGED <<entry, terminal, pg, env, ua, session_ua, rp, end_page, popVars, hist>>

\* lines 290-296: one turn of the loop up to the call of process_one_page
LoopTurn ==
  /\ pc = "rr_loop"
  /\ IF page > end_page
     THEN /\ Finish("complete")
          /\ UNCHANGED <<page, skipped, invoked, popVars>>
     ELSE IF FileExists(page)
          THEN /\ skipped' = skipped \cup {page}
               /\ page' = page + 1
               /\ UNCHANGED <<pc, terminal, invoked, popVars>>
          ELSE /\ Invoke(page, "rr_page")
               /\ UNCHANGED <<page, skipped, terminal>>
  /\ UNCHANGED <<entry, pg, env, ua, session_ua, rp, start_page, end_page,
                 consecutive_list_fails, args, files0, requests, failed, written, detected, handled>>

\* variant: the stop comes one failure early
TooManyFails_Early(n) == n >= STOP_ON_CONSECUTIVE_LIST_FAILS - 1

\* line 301
TooManyFails(n) == n >= STOP_ON_CONSECUTIVE_LIST_FAILS

\* lines 298-305: a page of the loop returned
PageDone ==
  /\ pc = "rr_page"
  /\ consecutive_list_fails' = Counted(ok, consecutive_list_fails)
  /\ IF ~ok /\ TooManyFails(consecutive_list_fails')
     THEN Finish("too_many_fails") /\ UNCHANGED page
     ELSE pc' = "rr_loop" /\ page' = page + 1 /\ UNCHANGED terminal
  /\ UNCHANGED <<entry, pg, env, ua, session_ua, rp, start_page, end_page, popVars, hist>>

(***************************************************************************)
(* process_one_page, lines 193-232, with fetch_detail_html and             *)
(* save_page_json                                                          *)
(***************************************************************************)
NoHtml == "None"             \* fetch_detail_html returning None

\* variant: the body of any response is returned, whatever its status
fetch_detail_html_AnyStatus(run, text) == IF run.resp = NoResp THEN NoHtml ELSE text

\* fetch_detail_html, lines 172-177, for the execution `run` of its
\* polite_get and the body `text` of the response
fetch_detail_html(run, text) == IF Failed(run.resp) THEN NoHtml ELSE text

\* `if html:` of line 228
Truthy(html) == html # NoHtml /\ html # NoText

\* lines 198-206: the policy check of the listing path and the listing fetch
FetchListing ==
  /\ pc = "pop_listing"
  /\ IF ~can_fetch(rp, ua, LISTING_PATH)
     THEN Return(FALSE) /\ UNCHANGED requests
     ELSE \E run \in ListingFetched :
            /\ requests' = requests \cup Sent("listing", page_index, run)
            /\ resp' = run.resp
            /\ pc' = "pop_listed"
            /\ UNCHANGED <<terminal, ret, page_index, items, result_map, ok, failed>>
  /\ UNCHANGED <<entry, pg, env, rrVars, args, files0, skipped, invoked, written, detected, handled>>

\* lines 207-218: the listing failed, or it is parsed
ParseListing ==
  /\ pc = "pop_listed"
  /\ IF Failed(resp)
     THEN Return(FALSE)
     ELSE \E found \in ParsedListings :
            /\ items' = found
            /\ result_map' = EmptyMap
            /\ pc' = "pop_items"
            /\ UNCHANGED <<terminal, ret, page_index, resp, ok, failed>>
  /\ UNCHANGED <<entry, pg, env, rrVars, args, files0, requests, skipped, invoked, written,
                 detected, handled>>

\* the bodies a detail response can have where the items' outcomes are kept
DetailBodies == {"h1", "h2"}

\* what is kept of an item the loop visited
Handled(reg_no, allowed, run, text) ==
  [reg_no |-> reg_no, allowed |-> allowed, resp |-> run.resp,
   text |-> IF Failed(run.resp) THEN NoText ELSE text]

\* what one detail fetch of page p for the item reg_no can come to: the value
\* of fetch_detail_html, the requests made and what is kept of the item
DetailOutcomes(p, reg_no, texts, keep) ==
  {[html |-> fetch_detail_html(run, text),
    sent |-> Sent("detail", p, run),
    kept |-> IF keep THEN <<Handled(reg_no, TRUE, run, text)>> ELSE <<>>] :
     run \in DetailFetched, text \in texts}

\* lines 219-229: one turn of the loop, on the first item not yet visited;
\* the body of the detail response is one of `texts`, and the item's
\* outcome is kept in `handled` if `keep`
DetailTurn(texts, keep) ==
  /\ pc = "pop_items"
  /\ items # <<>>
  /\ LET reg_no == Head(items).reg_no
         path == Head(items).detail_url
     IN IF ~can_fetch(rp, ua, path)
        THEN /\ UNCHANGED <<result_map, requests>>
             /\ handled' = IF keep
                            THEN Append(handled, Handled(reg_no, FALSE, [resp |-> NoResp], NoText))
                            ELSE handled
        ELSE \E o \in DetailOutcomes(page_index, reg_no, texts, keep) :
               /\ requests' = requests \cup o.sent
               /\ result_map' = IF Truthy(o.html)
                                THEN [result_map EXCEPT ![reg_no] = o.html]
                                ELSE result_map
               /\ handled' = handled \o o.kept
  /\ items' = Tail(items)
  /\ UNCHANGED <<pc, entry, terminal, pg, env, rrVars, ret, page_index, resp, ok,
                 args, files0, skipped, invoked, failed, written, detected>>

FetchDetail == DetailTurn(Contents \cup {NoText}, FALSE)

\* the same turn with the items' outcomes kept
FetchDetailKept == DetailTurn(DetailBodies \cup {NoText}, TRUE)

\* save_page_json, lines 184-185: open(fname, "w") creates or truncates the file
SaveOpen ==
  /\ pc = "pop_items"
  /\ items = <<>>
  /\ files' = [files EXCEPT ![page_index] = OpenedFile]
  /\ pc' = "save_dump"
  /\ written' = Append(written, page_index)
  /\ UNCHANGED <<entry, terminal, pg, STOP_ON_CONSECUTIVE_LIST_FAILS, fake_useragent, rrVars, popVars,
                 args, files0, requests, skipped, invoked, failed, detected, handled>>

\* save_page_json, lines 186-188: json.dump and the close of the file; then
\* line 232
SaveDump ==
  /\ pc = "save_dump"
  /\ files' = [files EXCEPT ![page_index] = WrittenFile(result_map)]
  /\ Return(TRUE)
  /\ UNCHANGED <<entry, pg, STOP_ON_CONSECUTIVE_LIST_FAILS, fake_useragent, rrVars,
                 args, files0, requests, skipped, invoked, written, detected, handled>>

(***************************************************************************)
(* The callers of the module's functions, and the end of the process.      *)
(***************************************************************************)
\* process_one_page called on its own, with a session, a parser and an
\* identity of the caller's
CallProcessOnePage(p) ==
  /\ pc = "start"
  /\ \E u \in get_user_agent(fake_useragent), su \in get_user_agent(fake_useragent),
        r \in init_robots_parser :
       /\ ua' = u /\ session_ua' = su /\ rp' = r
  /\ entry' = "process_one_page"
  /\ terminal' = "running"
  /\ start_page' = 0 /\ end_page' = None /\ page' = 0 /\ consecutive_list_fails' = 0
  /\ args' = <<p>>
  /\ files0' = files /\ requests' = {} /\ skipped' = {}
  /\ pc' = "pop_listing" /\ page_index' = p /\ ret' = "caller"
  /\ invoked' = <<p>> /\ failed' = {} /\ written' = <<>> /\ detected' = <<>> /\ handled' = <<>>
  /\ FreshPageLocals
  /\ ok' = FALSE /\ pg' = NoPg
  /\ UNCHANGED env

\* polite_get called on its own
CallPoliteGet(retries) ==
  /\ pc = "start"
  /\ \E run \in polite_get(retries) :
       /\ pg' = [resp |-> run.resp, gets |-> run.gets, sleeps |-> run.sleeps,
                 seen |-> run.seen, retries |-> retries]
       /\ requests' = Sent("direct", 0, run)
  /\ entry' = "polite_get"
  /\ terminal' = "returned"
  /\ ua' = "none" /\ session_ua' = "none" /\ rp' = FreshParser
  /\ start_page' = 0 /\ end_page' = None /\ page' = 0 /\ consecutive_list_fails' = 0
  /\ args' = <<retries>>
  /\ files0' = files /\ skipped' = {} /\ invoked' = <<>>
  /\ failed' = {} /\ written' = <<>> /\ detected' = <<>> /\ handled' = <<>>
  /\ ret' = "none" /\ page_index' = 0 /\ ok' = FALSE
  /\ FreshPageLocals
  /\ pc' = "done"
  /\ UNCHANGED env

\* the process is terminated (no cancellation other than that): what is on
\* disk stays, everything else is gone
Kill ==
  /\ pc \notin {"start", "done"}
  /\ pc' = "done"
  /\ terminal' = "killed"
  /\ ua' = "none" /\ session_ua' = "none" /\ rp' = FreshParser
  /\ start_page' = 0 /\ end_page' = None /\ page' = 0 /\ consecutive_list_fails' = 0
  /\ ret' = "none" /\ page_index' = 0 /\ ok' = FALSE
  /\ FreshPageLocals
  /\ requests' = {} /\ skipped' = {} /\ invoked' = <<>>
  /\ failed' = {} /\ written' = <<>> /\ detected' = <<>> /\ handled' = <<>>
  /\ UNCHANGED <<entry, pg, env, args, files0>>

\* the steps of the program itself
Program ==
  \/ \E s \in Pages, e \in Pages \cup {None} : CallRunRange(s, e)
  \/ AutoDetect
  \/ FirstPageDone
  \/ LoopTurn
  \/ PageDone
  \/ FetchListing
  \/ ParseListing
  \/ FetchDetail
  \/ SaveOpen
  \/ SaveDump
  \/ \E p \in Pages : CallProcessOnePage(p)
  \/ \E n \in 0..MaxRetries : CallPoliteGet(n)

Next ==
  \/ Program
  \/ Kill

Spec == Init /\ [][Next]_vars

\* one thread of control, and every call it blocks in (time.sleep, session.get
\* with its timeout, the parsers, the write of a file) returns: a step of the
\* program that can be taken is taken.  Nothing obliges the outside to
\* terminate the process.
FairSpec == Spec /\ WF_vars(Program)

\* the program where fake_useragent is installed
InstalledSpec == InstalledInit /\ [][Next]_vars

\* process_one_page called on its own, the outcome of every item kept
PageNext ==
  \/ \E p \in Pages : CallProcessOnePage(p)
  \/ FetchListing
  \/ ParseListing
  \/ FetchDetailKept
  \/ SaveOpen
  \/ SaveDump
  \/ Kill

PageSpec == Init /\ [][PageNext]_vars

(***************************************************************************)
(* The properties.                                                         *)
(***************************************************************************)
InPage == pc \in {"pop_listing", "pop_listed", "pop_items", "save_dump"}
RunEnded == entry = "run_range" /\ pc = "done" /\ terminal # "killed"
InvokedPages == {invoked[i] : i \in DOMAIN invoked}

\* C1 (as stated): a page whose file exists when run_range reaches it is the
\* page of no request of the run, the auto-detect probe included.
C1_CheckpointedPageNeverRequested ==
  entry = "run_range" => \A r \in requests : r[2] \notin skipped

\* C1 (amended): a page whose file exists (at the start of the run, or when
\* the run reaches it) is never handed to process_one_page and is the page
\* of no listing or detail request of it; the only request for it is the
\* probe of page start_page that the run makes when end_page is None.
C1_CheckpointedPageOnlyProbed ==
  entry = "run_range" =>
    /\ \A r \in requests :
         (files0[r[2]].exists \/ r[2] \in skipped) =>
           (r[1] = "detect" /\ r[2] = args[1] /\ args[2] = None)
    /\ skipped \cap InvokedPages = {}

C1_Witness ==
  /\ RunEnded /\ terminal = "complete"
  /\ \E p \in skipped : <<"detect", p>> \in requests /\ ~files0[p].complete
  /\ \E q \in Pages : <<"listing", q>> \in requests

C3_FailOpen ==
  (entry = "run_range" /\ terminal \notin {"none", "killed"} /\ rp = FreshParser) =>
    /\ \A u \in UserAgents, p \in Paths : can_fetch(rp, u, p)
    /\ terminal # "policy_denied"

\* C4: process_one_page is never running while the counter is at the
\* threshold or above, and a run all of whose pages failed attempted at most
\* `threshold` pages.
C4_NoPageAfterThreshold ==
  entry = "run_range" =>
    /\ InPage => consecutive_list_fails < STOP_ON_CONSECUTIVE_LIST_FAILS
    /\ (pc \in {"rr_loop", "done"} /\ terminal # "killed"
        /\ consecutive_list_fails = Len(invoked))
         => Len(invoked) <= STOP_ON_CONSECUTIVE_LIST_FAILS

\* what the claims call transient
ClaimTransient(o) == o = 429 \/ o >= 500 \/ o = RequestException

RECURSIVE LeadingTransients(_)
LeadingTransients(seen) ==
  IF seen = <<>> \/ ~ClaimTransient(Head(seen)) THEN 0
  ELSE 1 + LeadingTransients(Tail(seen))

C6_Exhaustion ==
  (entry = "polite_get" /\ pc = "done") =>
    /\ pg.gets = Len(pg.seen)
    /\ LeadingTransients(pg.seen) = Len(pg.seen) =>
         (pg.gets = pg.retries /\ pg.resp = NoResp)
    /\ pg.resp # NoResp => ~ClaimTransient(pg.resp)

C6_Witness ==
  /\ entry = "polite_get" /\ pc = "done" /\ pg.retries = 3
  /\ pg.seen = <<429, RequestException, 503>> /\ pg.resp = NoResp /\ pg.gets = 3

\* C7: if the policy denies the listing path or the detail path at the start
\* of run_range, the run is over at once: no request, no page processed, no
\* file written.
C7_PolicyDenialAborts ==
  (entry = "run_range" /\ terminal # "killed"
   /\ (~can_fetch(rp, ua, LISTING_PATH) \/ ~can_fetch(rp, ua, RESULT_PATH))) =>
    /\ pc = "done" /\ terminal = "policy_denied"
    /\ requests = {} /\ invoked = <<>> /\ skipped = {}
    /\ files = files0

C7_Witness ==
  /\ RunEnded /\ terminal = "policy_denied"
  /\ rp.last_checked /\ rp.rules = {RESULT_PATH}
  /\ \E p \in Pages : ~files0[p].exists

\* C8 (as stated): a run ends with all its pages processed or skipped, on
\* the policy denial at the start, or on the consecutive-failure threshold.
C8_ThreeTerminalStates ==
  RunEnded => terminal \in {"complete", "policy_denied", "too_many_fails"}

\* C8 (amended): a run ends by one of four routes: the loop ran out (every
\* page of the range processed or skipped), the policy denial at the start,
\* the counter at the threshold after a failed page, or the failure of the
\* probe of page start_page when end_page is None.
C8_FourTerminalStates ==
  RunEnded =>
    /\ terminal \in {"complete", "policy_denied", "too_many_fails", "detect_failed"}
    /\ terminal = "complete" =>
         /\ page > end_page
         /\ \A p \in args[1]..end_page : p \in skipped \cup InvokedPages
    /\ terminal = "policy_denied" =>
         (~StartupAllowed(rp, ua) /\ invoked = <<>> /\ requests = {})
    /\ terminal = "too_many_fails" =>
         /\ ~ok /\ invoked # <<>>
         /\ consecutive_list_fails >= STOP_ON_CONSECUTIVE_LIST_FAILS
    /\ terminal = "detect_failed" =>
         /\ args[2] = None /\ invoked = <<>> /\ skipped = {}
         /\ requests \subseteq {<<"detect", args[1]>>}
         /\ files = files0

C8_Witness ==
  /\ RunEnded /\ terminal = "detect_failed"
  /\ requests = {<<"detect", args[1]>>}

\* C9: a file of the output directory that this process has written is
\* complete whenever the process is over, however it ended.
C9_WrittenFileComplete ==
  pc = "done" => \A p \in Pages : files[p] # files0[p] => files[p].complete

\* C10: when the listing fetch of process_one_page came back absent or with
\* a status other than 200, process_one_page returns False at once: no
\* detail request and no write; and no detail request for the page was made
\* before its listing came back.
C10_ListingFailureIsPageLevel ==
  /\ [](pc = "pop_listed" => <<"detail", page_index>> \notin requests)
  /\ [][(pc = "pop_listed" /\ (resp = NoResp \/ resp # 200) /\ terminal' # "killed")
          => /\ ok' = FALSE
             /\ pc' = (IF ret = "caller" THEN "done" ELSE ret)
             /\ files' = files
             /\ requests' = requests]_vars

C10_Witness ==
  /\ entry = "run_range" /\ pc = "rr_page" /\ ~ok
  /\ <<"listing", page_index>> \in requests
  /\ <<"detail", page_index>> \notin requests
  /\ ~files[page_index].exists

\* C11: once the listing came back 200, process_one_page goes through its
\* items, writes the file of the page with the mapping it built (possibly
\* empty) and returns True, whatever the items' outcomes; the counter grows
\* only after a call that returned False, and such a call made no detail
\* request.
C11_RecordFailuresNeverEscalate ==
  /\ []((entry = "run_range" /\ pc \in {"rr_first", "rr_page"} /\ ~ok)
          => <<"detail", page_index>> \notin requests)
  /\ [][(pc = "pop_listed" /\ resp = 200 /\ terminal' # "killed")
          => pc' = "pop_items"]_vars
  /\ [][(pc = "pop_items" /\ terminal' # "killed")
          => /\ pc' \in {"pop_items", "save_dump"}
             /\ consecutive_list_fails' = consecutive_list_fails]_vars
  /\ [][(pc = "save_dump" /\ terminal' # "killed")
          => /\ ok'
             /\ files'[page_index] = WrittenFile(result_map)
             /\ pc' = (IF ret = "caller" THEN "done" ELSE ret)]_vars
  /\ [][consecutive_list_fails' > consecutive_list_fails
          => (pc \in {"rr_first", "rr_page"} /\ ~ok)]_vars

\* a page after a failed one: its item's detail fetch gave nothing, an empty
\* mapping was written and True returned
C11_Witness ==
  /\ entry = "run_range" /\ pc = "rr_page" /\ ok
  /\ consecutive_list_fails > 0
  /\ <<"detail", page_index>> \in requests
  /\ files[page_index] = WrittenFile(EmptyMap)

\* the elements of a set of page indices, in increasing order
Ascending(S) ==
  CHOOSE q \in [1..Cardinality(S) -> S] :
    \A i, j \in 1..Cardinality(S) : i < j => q[i] < q[j]

IsPrefix(a, b) == Len(a) <= Len(b) /\ \A i \in 1..Len(a) : a[i] = b[i]

\* the pages a run is to visit: start..end, and page start itself when the
\* end is detected
RunPages ==
  IF args[2] = None THEN {args[1]} \cup (args[1]..end_page) ELSE args[1]..args[2]

C13_NonTransientNotRetried ==
  (entry = "polite_get" /\ pc = "done") =>
    \A i \in 1..Len(pg.seen) :
      (pg.seen[i] \in Statuses /\ pg.seen[i] # 429 /\ pg.seen[i] < 500) =>
        /\ i = Len(pg.seen)
        /\ pg.gets = i
        /\ pg.resp = pg.seen[i]
        /\ Len(pg.sleeps) = i - 1

C13_Witness ==
  /\ entry = "polite_get" /\ pc = "done" /\ pg.retries = 3
  /\ pg.seen = <<429, 304>> /\ pg.resp = 304 /\ pg.gets = 2
  /\ pg.sleeps = <<BackoffTenths>>

\* C14: in a run with end_page None whose probe succeeded and whose
\* find_last_page_number returned None, the end is page start: the run
\* handles page start (process_one_page invoked once for it, or the page
\* skipped because its file exists), no other page, and every request of it
\* is for page start; it ends with its loop run out.
C14_AutoDetectFallback ==
  (entry = "run_range" /\ terminal # "killed" /\ args[2] = None /\ detected = <<None>>) =>
    /\ end_page = args[1]
    /\ Len(invoked) + Cardinality(skipped) = 1
    /\ InvokedPages \cup skipped = {args[1]}
    /\ \A r \in requests : r[2] = args[1]
    /\ pc = "done" => terminal = "complete"

C14_Witness ==
  /\ RunEnded /\ terminal = "complete"
  /\ args = <<1, None>> /\ detected = <<None>>
  /\ invoked = <<1>> /\ files[1].exists /\ ~files[3].exists
  /\ <<"detail", 1>> \in requests

\* C15: in every run of run_range the page indices process_one_page is
\* invoked with are strictly increasing (so none comes twice) and lie between
\* start and end inclusive, end being the end_page given or detected.
C15_VisitedInRangeInOrder ==
  (entry = "run_range" /\ terminal # "killed") =>
    /\ \A i, j \in 1..Len(invoked) : i < j => invoked[i] < invoked[j]
    /\ \A i \in 1..Len(invoked) : invoked[i] \in args[1]..end_page

\* the items of a page whose detail path the policy allowed and whose detail
\* fetch returned 200 with content, as positions of `handled`
Succeeded == {i \in DOMAIN handled :
                handled[i].allowed /\ handled[i].resp = 200 /\ handled[i].text # NoText}
Keys(m) == {r \in RegNos : m[r] # NoText}
PageSaved == entry = "process_one_page" /\ pc = "done" /\ terminal = "returned" /\ ok

\* C16: for a page whose listing came back 200, the keys of the mapping
\* written are exactly the record ids of the items whose path the policy
\* allowed and whose detail fetch returned 200 with content, and each key
\* maps to the content fetched for its item (the last one, should two items
\* carry the same id); record ids being unique within a page, every such
\* item has its entry: as many entries as items that succeeded.
C16_MappingOfSucceededItems ==
  PageSaved =>
    LET m == files[page_index].mapping
        LastOf(r) == CHOOSE i \in Succeeded :
                       /\ handled[i].reg_no = r
                       /\ \A j \in Succeeded : handled[j].reg_no = r => j <= i
    IN /\ files[page_index].complete
       /\ Keys(m) = {handled[i].reg_no : i \in Succeeded}
       /\ \A r \in Keys(m) : m[r] = handled[LastOf(r)].text
       /\ (\A i, j \in Succeeded : handled[i].reg_no = handled[j].reg_no => i = j)
            => /\ Cardinality(Keys(m)) = Cardinality(Succeeded)
               /\ \A i \in Succeeded : m[handled[i].reg_no] = handled[i].text

\* two items of different ids and contents, both stored
C16_Witness ==
  /\ PageSaved /\ Len(handled) = 2
  /\ handled[1].reg_no = "R1" /\ handled[1].text = "h2"
  /\ handled[2].reg_no = "R2" /\ handled[2].text = "h1"
  /\ files[page_index].mapping = [EmptyMap EXCEPT !["R1"] = "h2", !["R2"] = "h1"]

\* C17: (1) a file is written only by the page being processed, once no
\* item of it is left to handle; (2) each turn of the item loop handles the
\* first item not yet handled and nothing else: its requests are detail
\* requests of the page, only its key can change, no file is touched;
\* (3) a listing or detail request goes out only for the page being
\* processed, and every page invoked before it has by then failed or had
\* its file written.
C17_PageCompletionOrder ==
  /\ []((entry = "run_range" /\ terminal # "killed") =>
          \A r \in requests, p \in InvokedPages :
            p < r[2] => (p \in failed \/ (files[p].complete /\ files[p] # files0[p])))
  /\ [][files' # files
          => /\ pc \in {"pop_items", "save_dump"} /\ items = <<>>
             /\ \A p \in Pages \ {page_index} : files'[p] = files[p]]_vars
  /\ [][(pc = "pop_items" /\ pc' = "pop_items")
          => /\ items # <<>> /\ items' = Tail(items)
             /\ requests' \ requests \subseteq {<<"detail", page_index>>}
             /\ \A r \in RegNos \ {Head(items).reg_no} : result_map'[r] = result_map[r]
             /\ files' = files]_vars
  /\ [][\A r \in requests' \ requests :
          r[1] \in {"listing", "detail"} => (InPage /\ r[2] = page_index)]_vars

\* the second page of a run, its first item fetched and one still to handle;
\* the first page's file is written, this page's is not
C17_Witness ==
  /\ entry = "run_range" /\ Len(invoked) = 2 /\ invoked[2] = page_index
  /\ files[invoked[1]].complete /\ ~files0[invoked[1]].exists
  /\ pc = "pop_items" /\ Len(items) = 1
  /\ <<"detail", page_index>> \in requests
  /\ ~files[page_index].exists

\* C18: in a run of run_range, (1) a file that existed at the start of the
\* run or when the run reached its page is as it was; (2) no page index is
\* handed to save_page_json twice; (3) when the run is over, however it
\* ended, every file it wrote is there, complete; (4) no step changes a file
\* that existed before the run or that is complete, and none deletes a file.
C18_ExistingOutputUntouched ==
  /\ []((entry = "run_range" /\ terminal # "killed") =>
          /\ \A p \in Pages : (files0[p].exists \/ p \in skipped) => files[p] = files0[p]
          /\ \A i, j \in DOMAIN written : written[i] = written[j] => i = j
          /\ pc = "done" =>
               \A i \in DOMAIN written :
                 files[written[i]].complete /\ ~files0[written[i]].exists)
  /\ [][entry = "run_range" =>
          \A p \in Pages :
            files'[p] # files[p] =>
              (~files0[p].exists /\ ~files[p].complete /\ files'[p].exists)]_vars

\* a run stopped on the threshold: it skipped a page whose file existed and
\* had written another before the page that failed
C18_Witness ==
  /\ RunEnded /\ terminal = "too_many_fails"
  /\ written # <<>> /\ skipped # {}
  /\ \A p \in skipped : files[p] = files0[p]
  /\ files[written[1]].complete

\* C19: a call of polite_get is over after at most `retries` requests; in a
\* run of run_range no page index is handed to process_one_page twice; and
\* every run of run_range comes to its end.
C19_Termination ==
  /\ []((entry = "polite_get" /\ pc = "done")
          => (pg.gets <= pg.retries /\ Len(pg.seen) = pg.gets))
  /\ [](entry = "run_range"
          => \A i, j \in DOMAIN invoked : invoked[i] = invoked[j] => i = j)
  /\ (entry = "run_range") ~> (entry = "run_range" /\ pc = "done")

\* a run over every page that was not terminated from outside, each page's
\* listing having failed for good or been processed
C19_Witness ==
  /\ RunEnded /\ terminal = "complete"
  /\ args = <<1, MaxPage>> /\ Len(invoked) = MaxPage
  /\ failed # {} /\ written # <<>>

\* C20: in a run of run_range that has made a request, the identity the
\* policy was evaluated for (ua, handed to every can_fetch) is the
\* User-Agent header of the session that made it.
C20_SingleIdentity ==
  (entry = "run_range" /\ requests # {}) => session_ua = ua

====
